---- MODULE Spec2Model ----
(***************************************************************************)
(* Model of multiqc/picard/__init__.py: the Picard MarkDuplicates module   *)
(* of MultiQC.  MultiqcModule.__init__ scans every log file with           *)
(* parse_picard_dupMetrics, raises UserWarning when nothing was found,     *)
(* writes the parsed data, fills the general statistics table              *)
(* (picard_stats_table) and derives the plotted counts                     *)
(* (mark_duplicates_plot).                                                 *)
(*                                                                         *)
(* A line of a log file is modelled by what the code asks of it: the       *)
(* outcome of each substring test and of the INPUT=[...] search.  A row    *)
(* of the metrics table is the list of its tab-separated tokens; a value   *)
(* token is the sequence of its characters, so that float() is computed.   *)
(* Numbers are held in hundredths (0.25 is 25, 100 is 10000).              *)
(***************************************************************************)
EXTENDS Integers, Sequences, FiniteSets, TLC

VARIABLES
    pc,             \* position of the run in __init__ / the called method
    err,            \* the exception the run ended with, or "none"
    data,           \* self.picard_dupMetrics_data: sample id -> dict
    s_name,         \* parse_picard_dupMetrics: the pending sample, or None
    l,              \* parse_picard_dupMetrics: the line of the for loop
    keys,           \* parse_picard_dupMetrics: tokens of the header row
    vals,           \* parse_picard_dupMetrics: tokens of the value row
    n_docs,         \* files handed out by find_log_files so far
    n_lines,        \* lines of the current file read so far
    doc_marker,     \* a line of the current file held 'picard.sam.MarkDuplicates'
    doc_match,      \* a marker line of the current file had a matching INPUT=[path]
    took_block,     \* the test of lines 77-78 held for the line l
    last_pending,   \* the sample the previous file left pending, until a marker
                    \* line of the current file matches
    parsed,         \* sample ids whose header/value pair was stored (contributions)
    log,            \* messages handed to the logger
    csv,            \* what write_csv_file was given, or NotWritten
    general_stats,  \* config.general_stats: headers and rows
    todo,           \* samples the current for loop of a view has still to visit
    sn,             \* the loop variable of the current view
    sections        \* self.sections

vars == <<pc, err, data, s_name, l, keys, vals, n_docs, n_lines, doc_marker,
          doc_match, took_block, last_pending, parsed, log, csv, general_stats,
          todo, sn, sections>>

----------------------------------------------------------------------------
(* Bounds of the model. *)

\* files that find_log_files hands out in one run
MaxDocs == 2
\* lines of one file that the for loop of parse_picard_dupMetrics reads
MaxLines == 3

----------------------------------------------------------------------------
(* Python values. *)

None == "None"

\* a dict with no key
EmptyDict == [k \in {} |-> None]

\* d[k] = v
SetItem(d, k, v) == [x \in (DOMAIN d) \cup {k} |-> IF x = k THEN v ELSE d[x]]

\* a float (in hundredths) and a str (the characters of the token)
Num(n) == [type |-> "float", n |-> n, s |-> <<>>]
Str(t) == [type |-> "str", n |-> 0, s |-> t]

----------------------------------------------------------------------------
(* float(token): the text of a decimal number, surrounded by optional      *)
(* white space, or ValueError.                                             *)

Whitespace == {" ", "\n", "\r"}
Digits == <<"0", "1", "2", "3", "4", "5", "6", "7", "8", "9">>
Digit == {Digits[i] : i \in 1..Len(Digits)}
DigitVal(c) == (CHOOSE i \in 1..Len(Digits) : Digits[i] = c) - 1

RECURSIVE LStrip(_)
LStrip(t) == IF t # <<>> /\ Head(t) \in Whitespace THEN LStrip(Tail(t)) ELSE t

RECURSIVE RStrip(_)
RStrip(t) ==
    IF t # <<>> /\ t[Len(t)] \in Whitespace
    THEN RStrip(SubSeq(t, 1, Len(t) - 1))
    ELSE t

Strip(t) == RStrip(LStrip(t))

\* the token without its sign
Unsigned(t) == IF t # <<>> /\ Head(t) \in {"+", "-"} THEN Tail(t) ELSE t
Sign(t) == IF t # <<>> /\ Head(t) = "-" THEN -1 ELSE 1

RECURSIVE DigitsVal(_)
DigitsVal(t) ==
    IF t = <<>> THEN 0
    ELSE DigitsVal(SubSeq(t, 1, Len(t) - 1)) * 10 + DigitVal(t[Len(t)])

Dots(u) == {i \in 1..Len(u) : u[i] = "."}
IntPart(u) == IF Dots(u) = {} THEN u ELSE SubSeq(u, 1, (CHOOSE i \in Dots(u) : TRUE) - 1)
FracPart(u) ==
    IF Dots(u) = {} THEN <<>>
    ELSE SubSeq(u, (CHOOSE i \in Dots(u) : TRUE) + 1, Len(u))

\* the two digits after the point, as hundredths
Hundredths(f) ==
    IF Len(f) = 0 THEN 0
    ELSE IF Len(f) = 1 THEN DigitVal(f[1]) * 10
    ELSE DigitVal(f[1]) * 10 + DigitVal(f[2])

\* float(t) succeeds
IsFloat(t) ==
    LET u == Unsigned(Strip(t)) IN
        /\ Cardinality(Dots(u)) <= 1
        /\ \A i \in 1..Len(u) : u[i] \in Digit \cup {"."}
        /\ \E i \in 1..Len(u) : u[i] \in Digit

\* float(t), in hundredths
FloatOf(t) ==
    LET s == Strip(t)
        u == Unsigned(s)
    IN  Sign(s) * (DigitsVal(IntPart(u)) * 100 + Hundredths(FracPart(u)))

\* Coerce with the except branch keeping the stripped token
CoerceStripped(t) == IF IsFloat(t) THEN Num(FloatOf(t)) ELSE Str(Strip(t))

\* lines 82-85: try float(vals[i]), except ValueError keep vals[i]
Coerce(t) == IF IsFloat(t) THEN Num(FloatOf(t)) ELSE Str(t)

\* StoreKeys with the value index one behind the key index (vals[i-1])
RECURSIVE StoreKeysOffByOne(_, _, _, _)
StoreKeysOffByOne(d, ks, vs, i) ==
    IF i > Len(ks) THEN [d |-> d, err |-> "none"]
    ELSE IF i > Len(vs) THEN [d |-> d, err |-> "IndexError"]
    ELSE StoreKeysOffByOne(
             SetItem(d, ks[i], Coerce(vs[IF i = 1 THEN Len(vs) ELSE i - 1])),
             ks, vs, i + 1)

\* lines 81-85: for i, k in enumerate(keys); vals[i] past the end of vals
\* raises IndexError, which nothing catches
RECURSIVE StoreKeys(_, _, _, _)
StoreKeys(d, ks, vs, i) ==
    IF i > Len(ks) THEN [d |-> d, err |-> "none"]
    ELSE IF i > Len(vs) THEN [d |-> d, err |-> "IndexError"]
    ELSE StoreKeys(SetItem(d, ks[i], Coerce(vs[i])), ks, vs, i + 1)

----------------------------------------------------------------------------
(* Inputs: lines, paths, rows. *)

\* fn_search is None
NoMatch == <<>>

\* the paths INPUT=[...] holds, as their components
Paths == { <<"d", "A.bam">>, <<"B.bam">> }

\* os.path.basename
basename(p) == p[Len(p)]

\* self.clean_s_name(s_name, f['root']) of the base class
clean_s_name(n) ==
    CASE n = "A.bam" -> "A"
      [] n = "B.bam" -> "B"
      [] OTHER -> n

\* a line: 'picard.sam.MarkDuplicates' in l, 'INPUT' in l, the path that
\* re.search("INPUT=\[([^\]]+)\]", l) captures, and
\* 'picard.sam.DuplicationMetrics' in l and '## METRICS CLASS' in l
Lines ==
    { ln \in [marker : BOOLEAN, INPUT : BOOLEAN, fn : Paths \cup {NoMatch},
              metrics : BOOLEAN] :
        ln.fn # NoMatch => ln.INPUT }

\* field names of the metrics table
URE == "UNPAIRED_READS_EXAMINED"
RPE == "READ_PAIRS_EXAMINED"
URD == "UNPAIRED_READ_DUPLICATES"
RPD == "READ_PAIR_DUPLICATES"
RPOD == "READ_PAIR_OPTICAL_DUPLICATES"
PD == "PERCENT_DUPLICATION"
\* the last token of a line read from a file keeps the line's newline
ELS == "ESTIMATED_LIBRARY_SIZE\n"

URU == "UNPAIRED_READ_UNIQUE"
RPNOD == "READ_PAIR_NOT_OPTICAL_DUPLICATES"
RPU == "READ_PAIR_UNIQUE"

\* header rows: the full header, one without READ_PAIR_DUPLICATES, one
\* without PERCENT_DUPLICATION, a short one that repeats a name
HeaderRows ==
    { <<URE, RPE, URD, RPD, RPOD, PD, ELS>>,
      <<URE, RPE, URD, RPOD, PD, ELS>>,
      <<URE, RPE, URD, RPD, RPOD, ELS>>,
      <<PD, PD, ELS>> }

T100 == <<"1", "0", "0">>
T200 == <<"2", "0", "0">>
T10 == <<"1", "0">>
T40 == <<"4", "0">>
T5 == <<"5">>
T025 == <<"0", ".", "2", "5">>
T500 == <<"5", "0", "0">>
T1000n == <<"1", "0", "0", "0", "\n">>
Tabc == <<"a", "b", "c">>
Tn == <<"\n">>

\* value rows: the example of the specification, one whose subtrahends
\* exceed the minuends and whose last column is empty, one with a token that
\* is no number, a short one.  No token has more than two decimals.
ValueRows ==
    { <<T100, T200, T10, T40, T5, T025, T1000n>>,
      <<T10, T40, T100, T200, T500, T025, Tn>>,
      <<Tabc, T200, T10, T40, T5, T025, T1000n>>,
      <<T025, Tabc, T1000n>> }

\* keys and vals before they are assigned (a row read from a file is never
\* empty: "".split("\t") is [""])
NoRow == <<>>

\* l before the first line is read
NoLine == [marker |-> FALSE, INPUT |-> FALSE, fn |-> NoMatch, metrics |-> FALSE]

\* csv before write_csv_file is called
NotWritten == [written |-> FALSE, data |-> EmptyDict]

----------------------------------------------------------------------------
(* parse_picard_dupMetrics, one line of the for loop at a time. *)

\* IsNewLog without the test for the record marker
IsNewLogAnyInput(ln) == ln.INPUT

\* line 65: a new log starts
IsNewLog(ln) == ln.marker /\ ln.INPUT

\* lines 69-70: fn_search is not None
Found(ln) == IsNewLog(ln) /\ ln.fn # NoMatch

\* lines 71-72: the sample name of the path
SampleName(ln) == clean_s_name(basename(ln.fn))

\* Pending without the reset of line 66
PendingKept(s, ln) == IF Found(ln) THEN SampleName(ln) ELSE s

\* Pending that keeps the sample already pending on a new matching marker
PendingFirst(s, ln) ==
    IF IsNewLog(ln)
    THEN (IF ln.fn # NoMatch THEN (IF s # None THEN s ELSE SampleName(ln)) ELSE None)
    ELSE s

\* Pending with "or" for the "and" of line 65
PendingLoose(s, ln) ==
    IF ln.marker \/ ln.INPUT
    THEN (IF ln.fn # NoMatch THEN SampleName(ln) ELSE None)
    ELSE s

\* lines 65-72: s_name after the marker test of the line
Pending(s, ln) ==
    IF IsNewLog(ln)
    THEN (IF ln.fn # NoMatch THEN SampleName(ln) ELSE None)
    ELSE s

\* NewEntry that keeps the dict of a sample name already there
NewEntryKept(d, ln) ==
    IF Found(ln) /\ SampleName(ln) \notin DOMAIN d
    THEN SetItem(d, SampleName(ln), EmptyDict)
    ELSE d

\* NewEntry with line 75 outside the test of fn_search
NewEntryUnmatched(d, ln) ==
    IF IsNewLog(ln)
    THEN SetItem(d, IF ln.fn # NoMatch THEN SampleName(ln) ELSE None, EmptyDict)
    ELSE d

\* line 75: self.picard_dupMetrics_data[s_name] = dict()
NewEntry(d, ln) == IF Found(ln) THEN SetItem(d, SampleName(ln), EmptyDict) ELSE d

\* lines 73-74: the duplicate sample name diagnostic
DupLog(lg, d, ln) ==
    IF Found(ln) /\ SampleName(ln) \in DOMAIN d
    THEN lg \cup {[level |-> "debug", msg |-> "Duplicate sample name found! Overwriting", arg |-> SampleName(ln)]}
    ELSE lg

\* lines 77-78: the metrics block of a pending sample starts
IsMetricsBlock(s, ln) == s # None /\ ln.metrics

\* NextFile without line 62: the sample the last file left pending stays
NextFileCarry ==
    /\ pc = "find" /\ err = "none"
    /\ n_docs < MaxDocs
    /\ n_docs' = n_docs + 1
    /\ pc' = "scan"
    /\ s_name' = last_pending
    /\ n_lines' = 0
    /\ l' = NoLine
    /\ keys' = NoRow
    /\ vals' = NoRow
    /\ doc_marker' = FALSE
    /\ doc_match' = FALSE
    /\ took_block' = FALSE
    /\ UNCHANGED <<err, data, last_pending, parsed, log, csv, general_stats, todo, sn,
                   sections>>

\* lines 34-35, 62: the next file is handed to parse_picard_dupMetrics
NextFile ==
    /\ pc = "find" /\ err = "none"
    /\ n_docs < MaxDocs
    /\ n_docs' = n_docs + 1
    /\ pc' = "scan"
    /\ s_name' = None
    /\ n_lines' = 0
    /\ l' = NoLine
    /\ keys' = NoRow
    /\ vals' = NoRow
    /\ doc_marker' = FALSE
    /\ doc_match' = FALSE
    /\ took_block' = FALSE
    /\ UNCHANGED <<err, data, last_pending, parsed, log, csv, general_stats, todo, sn,
                   sections>>

\* lines 63-80: one line of the file; a metrics line of a pending sample
\* reads the two rows that follow it with next()
ScanLine ==
    /\ pc = "scan" /\ err = "none"
    /\ n_lines < MaxLines
    /\ \E ln \in Lines :
        /\ l' = ln
        /\ n_lines' = n_lines + 1
        /\ s_name' = Pending(s_name, ln)
        /\ data' = NewEntry(data, ln)
        /\ log' = DupLog(log, data, ln)
        /\ doc_marker' = (doc_marker \/ ln.marker)
        /\ doc_match' = (doc_match \/ Found(ln))
        /\ took_block' = IsMetricsBlock(Pending(s_name, ln), ln)
        /\ last_pending' = IF ln.marker /\ ln.INPUT /\ ln.fn # NoMatch THEN None ELSE last_pending
        /\ IF ~IsMetricsBlock(Pending(s_name, ln), ln)
           THEN /\ pc' = "scan"
                /\ UNCHANGED <<err, keys, vals>>
           ELSE \/ \* line 79: the file ends with the metrics line
                   /\ pc' = "scan"
                   /\ err' = "StopIteration"
                   /\ UNCHANGED <<keys, vals>>
                \/ \* line 80: the file ends with the header row
                   /\ \E hr \in HeaderRows : keys' = hr
                   /\ pc' = "scan"
                   /\ err' = "StopIteration"
                   /\ UNCHANGED vals
                \/ \* lines 79-80: both rows are read
                   /\ \E hr \in HeaderRows : keys' = hr
                   /\ \E vr \in ValueRows : vals' = vr
                   /\ pc' = "store"
                   /\ UNCHANGED err
    /\ UNCHANGED <<n_docs, parsed, csv, general_stats, todo, sn, sections>>

\* lines 81-85: the header and value tokens are stored under the sample
StoreRow ==
    /\ pc = "store" /\ err = "none"
    /\ LET r == StoreKeys(data[s_name], keys, vals, 1) IN
        /\ data' = SetItem(data, s_name, r.d)
        /\ err' = r.err
        /\ pc' = IF r.err = "none" THEN "stored" ELSE "store"
    /\ UNCHANGED <<s_name, l, keys, vals, n_docs, n_lines, doc_marker, doc_match, took_block, last_pending,
                   parsed, log, csv, general_stats, todo, sn, sections>>

\* EndBlock without the reset of line 86
EndBlockPending ==
    /\ pc = "stored" /\ err = "none"
    /\ parsed' = parsed \cup {s_name}
    /\ pc' = "scan"
    /\ UNCHANGED <<err, data, s_name, l, keys, vals, n_docs, n_lines, doc_marker, doc_match,
                   took_block, last_pending, log, csv, general_stats, todo, sn, sections>>

\* line 86: the block is complete, no sample is pending
EndBlock ==
    /\ pc = "stored" /\ err = "none"
    /\ parsed' = parsed \cup {s_name}
    /\ s_name' = None
    /\ pc' = "scan"
    /\ UNCHANGED <<err, data, l, keys, vals, n_docs, n_lines, doc_marker, doc_match, took_block, last_pending,
                   log, csv, general_stats, todo, sn, sections>>

\* line 63: the file has no more lines, parse_picard_dupMetrics returns and
\* its locals are gone
EndOfFile ==
    /\ pc = "scan" /\ err = "none"
    /\ pc' = "find"
    /\ s_name' = None
    /\ l' = NoLine
    /\ keys' = NoRow
    /\ vals' = NoRow
    /\ n_lines' = 0
    /\ doc_marker' = FALSE
    /\ doc_match' = FALSE
    /\ took_block' = FALSE
    /\ last_pending' = s_name
    /\ UNCHANGED <<err, data, n_docs, parsed, log, csv, general_stats, todo, sn, sections>>

\* line 34: find_log_files has no more files
NoMoreFiles ==
    /\ pc = "find" /\ err = "none"
    /\ pc' = "check"
    /\ last_pending' = None
    /\ UNCHANGED <<err, data, s_name, l, keys, vals, n_docs, n_lines, doc_marker,
                   doc_match, took_block, parsed, log, csv, general_stats, todo, sn,
                   sections>>

----------------------------------------------------------------------------
(* __init__ after the scan, picard_stats_table, mark_duplicates_plot. *)

\* CheckFound without the raise of line 39
CheckFoundNoRaise ==
    /\ pc = "check" /\ err = "none"
    /\ IF Cardinality(DOMAIN data) = 0
       THEN log' = log \cup {[level |-> "debug", msg |-> "Could not find any reports", arg |-> ""]}
       ELSE log' = log \cup {[level |-> "info", msg |-> "Found reports", arg |-> ""]}
    /\ pc' = "write"
    /\ UNCHANGED <<err, data, s_name, l, keys, vals, n_docs, n_lines, doc_marker, doc_match,
                   took_block, last_pending, parsed, csv, general_stats, todo, sn, sections>>

\* lines 37-41: nothing found raises UserWarning
CheckFound ==
    /\ pc = "check" /\ err = "none"
    /\ IF Cardinality(DOMAIN data) = 0
       THEN /\ log' = log \cup {[level |-> "debug", msg |-> "Could not find any reports", arg |-> ""]}
            /\ err' = "UserWarning"
            /\ pc' = "check"
       ELSE /\ log' = log \cup {[level |-> "info", msg |-> "Found reports", arg |-> ""]}
            /\ err' = "none"
            /\ pc' = "write"
    /\ UNCHANGED <<data, s_name, l, keys, vals, n_docs, n_lines, doc_marker,
                   doc_match, took_block, last_pending, parsed, csv, general_stats, todo, sn, sections>>

\* lines 44-46: write_csv_file, self.sections = list()
WriteCsv ==
    /\ pc = "write" /\ err = "none"
    /\ csv' = [written |-> TRUE, data |-> data]
    /\ sections' = <<>>
    /\ pc' = "stats_header"
    /\ UNCHANGED <<err, data, s_name, l, keys, vals, n_docs, n_lines, doc_marker,
                   doc_match, took_block, last_pending, parsed, log, general_stats, todo, sn>>

\* line 93: the column header of the general statistics table
StatsHeader ==
    /\ pc = "stats_header" /\ err = "none"
    /\ general_stats' = [general_stats EXCEPT !.headers = @ \cup {"picard_percent_duplication"}]
    /\ todo' = DOMAIN data
    /\ pc' = "stats"
    /\ UNCHANGED <<err, data, s_name, l, keys, vals, n_docs, n_lines, doc_marker,
                   doc_match, took_block, last_pending, parsed, log, csv, sn, sections>>

\* StatsCell without the multiplication by 100
StatsCellFraction(d) ==
    IF PD \notin DOMAIN d THEN [err |-> "KeyError", tenths |-> 0]
    ELSE IF d[PD].type = "str" THEN [err |-> "ValueError", tenths |-> 0]
    ELSE [err |-> "none", tenths |-> (d[PD].n * 10) \div 100]

\* line 95: '{:.1f}%'.format(data['PERCENT_DUPLICATION']*100); a str times
\* 100 is a str, which the format code f rejects
StatsCell(d) ==
    IF PD \notin DOMAIN d THEN [err |-> "KeyError", tenths |-> 0]
    ELSE IF d[PD].type = "str" THEN [err |-> "ValueError", tenths |-> 0]
    ELSE [err |-> "none", tenths |-> ((d[PD].n * 100) * 10) \div 100]

\* lines 94-95: one sample of the loop over items()
StatsRow ==
    /\ pc = "stats" /\ err = "none"
    /\ \E s \in todo :
        LET c == StatsCell(data[s]) IN
        /\ sn' = s
        /\ err' = c.err
        /\ IF c.err = "none"
           THEN /\ general_stats' = [general_stats EXCEPT !.rows = SetItem(@, s, c.tenths)]
                /\ todo' = todo \ {s}
           ELSE UNCHANGED <<general_stats, todo>>
    /\ UNCHANGED <<pc, data, s_name, l, keys, vals, n_docs, n_lines, doc_marker,
                   doc_match, took_block, last_pending, parsed, log, csv, sections>>

\* lines 94, 50, 56, 103: the table is done, mark_duplicates_plot is called
StatsDone ==
    /\ pc = "stats" /\ err = "none"
    /\ todo = {}
    /\ todo' = DOMAIN data
    /\ pc' = "derive"
    /\ UNCHANGED <<err, data, s_name, l, keys, vals, n_docs, n_lines, doc_marker,
                   doc_match, took_block, last_pending, parsed, log, csv, general_stats, sn, sections>>

\* Subtract that clamps a negative difference to zero
SubtractClamped(r, k, a, b) ==
    IF r.err # "none" THEN r
    ELSE IF a \notin DOMAIN r.d \/ b \notin DOMAIN r.d THEN [d |-> r.d, err |-> "KeyError"]
    ELSE IF r.d[a].type = "str" \/ r.d[b].type = "str" THEN [d |-> r.d, err |-> "TypeError"]
    ELSE [d |-> SetItem(r.d, k, Num(IF r.d[a].n > r.d[b].n THEN r.d[a].n - r.d[b].n ELSE 0)),
          err |-> "none"]

\* Subtract that reads a missing field as zero (d.get(a, 0))
SubtractDefault(r, k, a, b) ==
    LET x == IF a \in DOMAIN r.d THEN r.d[a] ELSE Num(0)
        y == IF b \in DOMAIN r.d THEN r.d[b] ELSE Num(0)
    IN  IF r.err # "none" THEN r
        ELSE IF x.type = "str" \/ y.type = "str" THEN [d |-> r.d, err |-> "TypeError"]
        ELSE [d |-> SetItem(r.d, k, Num(x.n - y.n)), err |-> "none"]

\* d[k] = d[a] - d[b]: both lookups come before the subtraction
Subtract(r, k, a, b) ==
    IF r.err # "none" THEN r
    ELSE IF a \notin DOMAIN r.d \/ b \notin DOMAIN r.d THEN [d |-> r.d, err |-> "KeyError"]
    ELSE IF r.d[a].type = "str" \/ r.d[b].type = "str" THEN [d |-> r.d, err |-> "TypeError"]
    ELSE [d |-> SetItem(r.d, k, Num(r.d[a].n - r.d[b].n)), err |-> "none"]

\* lines 104-106: the three derived fields of one sample, in this order
Derive(d) ==
    Subtract(Subtract(Subtract([d |-> d, err |-> "none"], URU, URE, URD),
                      RPNOD, RPD, RPOD),
             RPU, RPE, RPD)

\* DeriveSample in a loop that may visit a sample again
DeriveSampleAgain ==
    /\ pc = "derive" /\ err = "none"
    /\ \E s \in todo :
        LET r == Derive(data[s]) IN
        /\ sn' = s
        /\ data' = SetItem(data, s, r.d)
        /\ err' = r.err
    /\ UNCHANGED <<pc, s_name, l, keys, vals, n_docs, n_lines, doc_marker, doc_match,
                   took_block, last_pending, parsed, log, csv, general_stats, todo,
                   sections>>

\* lines 103-106: one sample of the loop over keys()
DeriveSample ==
    /\ pc = "derive" /\ err = "none"
    /\ \E s \in todo :
        LET r == Derive(data[s]) IN
        /\ sn' = s
        /\ data' = SetItem(data, s, r.d)
        /\ err' = r.err
        /\ todo' = IF r.err = "none" THEN todo \ {s} ELSE todo
    /\ UNCHANGED <<pc, s_name, l, keys, vals, n_docs, n_lines, doc_marker,
                   doc_match, took_block, last_pending, parsed, log, csv, general_stats, sections>>

\* lines 109-110: keys_r
keys_r == <<RPU, URU, RPNOD, RPOD, URD, "UNMAPPED_READS">>

\* lines 108-121, 53-57: plot_bargraph is handed the data and the section
\* is appended
Plot ==
    /\ pc = "derive" /\ err = "none"
    /\ todo = {}
    /\ sections' = Append(sections, [name |-> "Mark Duplicates", data |-> data, keys |-> keys_r])
    /\ pc' = "done"
    /\ UNCHANGED <<err, data, s_name, l, keys, vals, n_docs, n_lines, doc_marker,
                   doc_match, took_block, last_pending, parsed, log, csv, general_stats, todo, sn>>

----------------------------------------------------------------------------

\* line 33 and the state of the collaborators before the module runs
Init ==
    /\ pc = "find"
    /\ err = "none"
    /\ data = EmptyDict
    /\ s_name = None
    /\ l = NoLine
    /\ keys = NoRow
    /\ vals = NoRow
    /\ n_docs = 0
    /\ n_lines = 0
    /\ doc_marker = FALSE
    /\ doc_match = FALSE
    /\ took_block = FALSE
    /\ last_pending = None
    /\ parsed = {}
    /\ log = {}
    /\ csv = NotWritten
    /\ general_stats = [headers |-> {}, rows |-> EmptyDict]
    /\ todo = {}
    /\ sn = None
    /\ sections = <<>>

Next ==
    \/ NextFile
    \/ ScanLine
    \/ StoreRow
    \/ EndBlock
    \/ EndOfFile
    \/ NoMoreFiles
    \/ CheckFound
    \/ WriteCsv
    \/ StatsHeader
    \/ StatsRow
    \/ StatsDone
    \/ DeriveSample
    \/ Plot

Spec == Init /\ [][Next]_vars

----------------------------------------------------------------------------
(* Properties. *)

Range(q) == {q[i] : i \in 1..Len(q)}
Distinct(q) == \A i, j \in 1..Len(q) : q[i] = q[j] => i = j

\* the run is inside parse_picard_dupMetrics or between two files
Scanning == pc \in {"find", "scan", "store", "stored"}

\* a header row and a value row of the same width, no field name twice
WellFormed(ks, vs) == ks # NoRow /\ Len(ks) = Len(vs) /\ Distinct(ks)

\* the source fields of the derived fields that d lacks
SourceFields == {URE, URD, RPD, RPOD, RPE}
Missing(d) == SourceFields \ DOMAIN d

\* the fields lines 104-106 add
DerivedFields == {URU, RPNOD, RPU}

\* C1: when the header row and the value row of the first record of a
\* sample have been stored, the sample's dict is the positional zip of the
\* header tokens with the coerced value tokens: header token i maps to the
\* coerced value token i and the dict has no other key.
C1_PositionalZip ==
    (pc = "stored" /\ s_name \notin parsed /\ WellFormed(keys, vals)) =>
        /\ s_name \in DOMAIN data
        /\ DOMAIN data[s_name] = Range(keys)
        /\ \A i \in 1..Len(keys) : data[s_name][keys[i]] = Coerce(vals[i])

\* C1 witness: a record of seven columns has been stored, the first value
\* a string and the others numbers
C1_Witness ==
    /\ pc = "stored" /\ s_name \notin parsed /\ WellFormed(keys, vals)
    /\ Len(keys) = 7
    /\ data[s_name][URE].type = "str"
    /\ data[s_name][PD] = Num(25)

\* C2 (as claimed): a sample id is a key of picard_dupMetrics_data only if
\* a header/value pair has been stored for it: either an earlier block was
\* completed for it or its block has just been stored.
C2_EntryOnlyWhenParsed ==
    \A s \in DOMAIN data : s \in parsed \/ (pc = "stored" /\ s = s_name)

\* C3: when a record is stored for a sample id that already had a record
\* stored, the dict of the id holds the fields of the new record only, each
\* with the coerced value of its last column of that name; the collision
\* was logged and no exception was raised.
C3_LastRecordWins ==
    (pc = "stored" /\ s_name \in parsed) =>
        /\ DOMAIN data[s_name] = Range(keys)
        /\ \A i \in 1..Len(keys) :
              (\A j \in (i + 1)..Len(keys) : keys[j] # keys[i]) =>
                  data[s_name][keys[i]] = Coerce(vals[i])
        /\ \E m \in log : m.level = "debug" /\ m.arg = s_name
        /\ err = "none"

\* C3 witness: the second record of sample A, read from a second file, has
\* the short header, so that a field of a first record would show
C3_Witness ==
    /\ pc = "stored" /\ s_name = "A" /\ "A" \in parsed
    /\ n_docs = 2 /\ n_lines = 1
    /\ Len(keys) = 3
    /\ DOMAIN data["A"] = {PD, ELS}

\* C4 (as claimed): when all files are scanned and no header/value pair was
\* stored, the run stops at the check of line 37 with UserWarning and with
\* no other exception.
C4_AbsenceSignal ==
    (~Scanning /\ parsed = {}) => (pc = "check" /\ err \in {"none", "UserWarning"})

\* C5: a file none of whose marker lines has a matching INPUT=[path]
\* changes no key of picard_dupMetrics_data; when the scan is over and every
\* entry holds a record, the keys are the sample ids of the stored records;
\* UserWarning is raised only when no record was stored.
C5_FailingFilesAddNothing ==
    [][ /\ (pc = "scan" /\ ~doc_match') => data' = data
        /\ (pc' = "check" /\ parsed' # {} /\ \A s \in DOMAIN data' : data'[s] # EmptyDict)
              => (DOMAIN data' = parsed' /\ err' # "UserWarning")
        /\ err' = "UserWarning" => parsed' = {} ]_vars

\* C5 witness: sample A has its record from the first file and the second
\* file has just shown a marker line whose INPUT=[path] does not match
C5_Witness ==
    /\ pc = "scan" /\ n_docs = 2 /\ parsed = {"A"} /\ DOMAIN data = {"A"}
    /\ IsNewLog(l) /\ l.fn = NoMatch /\ ~doc_match

\* C6: after a line with the marker and INPUT whose INPUT=[path] does not
\* match, no sample is pending; while no sample is pending, a line that is
\* not a matching marker line (a metrics line among them) changes no entry
\* and leaves no sample pending.
C6_FailedMatchDropsBlock ==
    [][ /\ (pc' = "scan" /\ n_lines' > 0 /\ IsNewLog(l') /\ l'.fn = NoMatch)
              => (s_name' = None /\ data' = data)
        /\ (pc = "scan" /\ s_name = None /\ n_lines' = n_lines + 1 /\ ~Found(l'))
              => (data' = data /\ s_name' = None /\ pc' = "scan" /\ err' = "none") ]_vars

\* C6 witness: in one file a sample was pending, a marker line without a
\* match came, and the metrics line after it was read without effect
C6_Witness ==
    /\ pc = "scan" /\ err = "none" /\ n_docs = 1 /\ n_lines = 3
    /\ l.metrics /\ ~l.marker
    /\ s_name = None /\ doc_match /\ parsed = {}
    /\ DOMAIN data = {"A"}

\* C7: while no line of the file has held the record marker, no sample is
\* pending and every step of the scan leaves picard_dupMetrics_data as it
\* was, metrics lines and INPUT=[path] lines included.
C7_NoMarkerNoChange ==
    [][ (pc = "scan" /\ ~doc_marker') =>
            (data' = data /\ s_name' = None /\ err' = "none" /\ pc' \in {"scan", "find"}) ]_vars

\* C7 witness: the second file, without a marker so far, has shown a
\* metrics line that also holds INPUT=[path], and A's record is as it was
C7_Witness ==
    /\ pc = "scan" /\ n_docs = 2 /\ n_lines >= 2 /\ ~doc_marker
    /\ l.metrics /\ l.fn # NoMatch
    /\ parsed = {"A"} /\ data["A"] # EmptyDict

\* C8: after the derivation of a sample, and so for every sample after
\* mark_duplicates_plot, the three derived fields are the plain differences
\* of their source fields, negative when the subtrahend is the larger.
C8_PlainSubtraction ==
    \A s \in DOMAIN data :
        ((pc = "done") \/ (pc = "derive" /\ s \notin todo /\ (err = "none" \/ s # sn))) =>
            /\ data[s][URU] = Num(data[s][URE].n - data[s][URD].n)
            /\ data[s][RPNOD] = Num(data[s][RPD].n - data[s][RPOD].n)
            /\ data[s][RPU] = Num(data[s][RPE].n - data[s][RPD].n)

\* C8 witness: the run is done with one sample whose derived fields are
\* all negative and one with the values 90, 35 and 160 of the example
C8_Witness ==
    /\ pc = "done"
    /\ \E s \in DOMAIN data :
          data[s][URU].n < 0 /\ data[s][RPNOD].n < 0 /\ data[s][RPU].n < 0
    /\ \E s \in DOMAIN data :
          data[s][URU].n = 9000 /\ data[s][RPNOD].n = 3500 /\ data[s][RPU].n = 16000

\* C9 (as claimed): when the sample whose derivation ended the run lacks a
\* source field, the exception is the lookup failure and the sample has no
\* derived field whose source is missing.
C9_LookupFailure ==
    (pc = "derive" /\ err # "none" /\ Missing(data[sn]) # {}) =>
        /\ err = "KeyError"
        /\ (URU \in DOMAIN data[sn] => {URE, URD} \subseteq DOMAIN data[sn])
        /\ (RPNOD \in DOMAIN data[sn] => {RPD, RPOD} \subseteq DOMAIN data[sn])
        /\ (RPU \in DOMAIN data[sn] => {RPE, RPD} \subseteq DOMAIN data[sn])

\* a source field of an earlier derived field of d is a string
EarlierString(d) ==
    \/ /\ {URE, URD} \subseteq DOMAIN d
       /\ "str" \in {d[URE].type, d[URD].type}
    \/ /\ {URE, URD, RPD, RPOD} \subseteq DOMAIN d
       /\ "str" \in {d[RPD].type, d[RPOD].type}

\* C9 (amended): the derivation of a sample that lacks a source field never
\* completes: it ends in KeyError, or in TypeError when a subtraction before
\* the one with the missing source met a string; and no sample ever holds a
\* derived field whose source is missing.
C9_DerivationFails ==
    /\ (pc = "derive" /\ err # "none" /\ Missing(data[sn]) # {}) =>
          /\ err \in {"KeyError", "TypeError"}
          /\ err = "TypeError" <=> EarlierString(data[sn])
    /\ \A s \in DOMAIN data :
          /\ (pc \in {"derive", "done"} /\ s \notin todo) => Missing(data[s]) = {}
          /\ (URU \in DOMAIN data[s] => {URE, URD} \subseteq DOMAIN data[s])
          /\ (RPNOD \in DOMAIN data[s] => {RPD, RPOD} \subseteq DOMAIN data[s])
          /\ (RPU \in DOMAIN data[s] => {RPE, RPD} \subseteq DOMAIN data[s])

\* C9 witness: READ_PAIR_DUPLICATES is missing; the first derived field was
\* written and the second subtraction raised KeyError
C9_Witness ==
    /\ pc = "derive" /\ err = "KeyError"
    /\ Missing(data[sn]) = {RPD}
    /\ URU \in DOMAIN data[sn] /\ RPNOD \notin DOMAIN data[sn]

\* C10: every stored value is the number when float() accepts the token
\* and the token itself, character for character, when it does not; the
\* scan never ends in ValueError and the tokens after a string are stored.
C10_Coercion ==
    /\ Scanning => err # "ValueError"
    /\ pc = "stored" =>
          \A i \in 1..Len(keys) :
              (\A j \in (i + 1)..Len(keys) : keys[j] # keys[i]) =>
                  /\ i <= Len(vals)
                  /\ keys[i] \in DOMAIN data[s_name]
                  /\ IF IsFloat(vals[i])
                     THEN /\ data[s_name][keys[i]].type = "float"
                          /\ data[s_name][keys[i]].n = FloatOf(vals[i])
                     ELSE /\ data[s_name][keys[i]].type = "str"
                          /\ data[s_name][keys[i]].s = vals[i]

\* C10 witness: a string was stored for the first column, numbers for the
\* columns after it, and the empty last column is kept as its newline
C10_Witness ==
    /\ pc = "stored" /\ Len(keys) = 7
    /\ vals[1] = Tabc /\ data[s_name][keys[1]] = Str(Tabc)
    /\ data[s_name][keys[2]] = Num(20000)
    /\ data[s_name][keys[6]] = Num(25)
    /\ data[s_name][keys[7]] = Num(100000)

\* C11: once picard_stats_table has returned, the general statistics hold
\* the column picard_percent_duplication and a row for every sample id of
\* picard_dupMetrics_data and for no other id, and each row is the sample's
\* PERCENT_DUPLICATION times 100 to one decimal (0.25 gives 25.0).
C11_PercentRows ==
    pc \in {"derive", "done"} =>
        /\ "picard_percent_duplication" \in general_stats.headers
        /\ DOMAIN general_stats.rows = DOMAIN data
        /\ \A s \in DOMAIN data :
              /\ data[s][PD].type = "float"
              /\ general_stats.rows[s] = data[s][PD].n * 10

\* C11 witness: the table is done for two samples, one with
\* PERCENT_DUPLICATION 0.25 and the row 25.0, one with 5 and the row 500.0
C11_Witness ==
    /\ pc = "derive" /\ err = "none" /\ todo = DOMAIN data
    /\ DOMAIN data = {"A", "B"}
    /\ data["A"][PD] = Num(25) /\ general_stats.rows["A"] = 250
    /\ data["B"][PD] = Num(500) /\ general_stats.rows["B"] = 5000

\* C12: a marker line with a matching INPUT=[path] makes its sample the
\* pending one, whatever sample was pending before; a metrics block is
\* stored under the sample pending at its metrics line, which is the sample
\* of the line itself when that line is a matching marker line, and storing
\* the block changes the entry of no other sample.
C12_MostRecentMarker ==
    [][ /\ (pc = "scan" /\ n_lines' = n_lines + 1
              /\ l'.marker /\ l'.INPUT /\ l'.fn # NoMatch) =>
                /\ s_name' = clean_s_name(basename(l'.fn))
                /\ (pc' = "store" <=> (l'.metrics /\ err' = "none"))
        /\ (pc = "scan" /\ pc' = "store" /\ ~(l'.marker /\ l'.INPUT)) =>
                (s_name' = s_name /\ s_name # None)
        /\ pc = "store" =>
                /\ s_name' = s_name
                /\ DOMAIN data' = DOMAIN data
                /\ \A s \in DOMAIN data \ {s_name} : data'[s] = data[s] ]_vars

\* C12 witness: in one file of three lines both A and B had a matching
\* marker line, and the block of the metrics line that came third is stored
\* under B while A's entry is empty
C12_Witness ==
    /\ pc = "stored" /\ n_docs = 1 /\ n_lines = 3
    /\ l.metrics /\ ~l.marker
    /\ s_name = "B" /\ parsed = {}
    /\ DOMAIN data = {"A", "B"}
    /\ data["A"] = EmptyDict /\ data["B"] # EmptyDict

\* C13: when a block has been stored no sample is pending any more, and
\* while none is pending a metrics line that is no matching marker line
\* reads no row and changes no entry, so the record of the first block
\* stays as it was stored.
C13_OneBlockPerMarker ==
    [][ /\ pc = "stored" => (s_name' = None /\ pc' = "scan" /\ data' = data)
        /\ (pc = "scan" /\ s_name = None /\ n_lines' = n_lines + 1 /\ l'.metrics
              /\ ~(l'.marker /\ l'.INPUT /\ l'.fn # NoMatch)) =>
                /\ ~took_block'
                /\ keys' = keys /\ vals' = vals
                /\ data' = data /\ parsed' = parsed
                /\ pc' = "scan" /\ err' = "none" ]_vars

\* C13 witness: the file had A's block stored, and the metrics line read
\* after it took no rows and left A's record in place
C13_Witness ==
    /\ pc = "scan" /\ err = "none" /\ n_docs = 1
    /\ l.metrics /\ ~l.marker /\ ~took_block
    /\ s_name = None /\ parsed = {"A"}
    /\ DOMAIN data = {"A"} /\ data["A"] # EmptyDict

\* C14: while a sample is pending, a line that neither holds both the
\* record marker and INPUT nor is a metrics line leaves the pending sample
\* and picard_dupMetrics_data as they were and the scan goes on; this holds
\* for every such line, however many follow each other.
C14_OtherLinesIgnored ==
    [][ (pc = "scan" /\ s_name # None /\ n_lines' = n_lines + 1
          /\ ~(l'.marker /\ l'.INPUT) /\ ~l'.metrics) =>
            /\ s_name' = s_name
            /\ data' = data /\ parsed' = parsed
            /\ keys' = keys /\ vals' = vals
            /\ pc' = "scan" /\ err' = "none" ]_vars

\* C14 witness: A is pending with its empty entry after the third line of
\* the file, a line with the record marker but without INPUT
C14_Witness ==
    /\ pc = "scan" /\ err = "none" /\ n_docs = 1 /\ n_lines = 3
    /\ l.marker /\ ~l.INPUT /\ ~l.metrics
    /\ s_name = "A" /\ parsed = {}
    /\ DOMAIN data = {"A"} /\ data["A"] = EmptyDict

\* C15: the scan of every file starts with no sample pending; a sample is
\* pending, and a block is taken, only after a marker line of the same file
\* has matched; so while no marker line of the file has matched, the sample
\* the file before left pending is not pending and gets no block.
C15_ResetPerDocument ==
    /\ (pc = "scan" /\ n_lines = 0) => s_name = None
    /\ (Scanning /\ (s_name # None \/ took_block)) => doc_match
    /\ last_pending # None =>
          /\ pc \in {"find", "scan"}
          /\ s_name = None /\ ~took_block
          /\ (last_pending \notin parsed => data[last_pending] = EmptyDict)

\* C15 witness: the first file left A pending without a block; the second
\* file has shown a metrics line before any marker line, no rows were read
\* and A's entry is still empty
C15_Witness ==
    /\ pc = "scan" /\ err = "none" /\ n_docs = 2 /\ n_lines > 0
    /\ l.metrics /\ ~l.marker /\ ~took_block
    /\ last_pending = "A" /\ s_name = None
    /\ parsed = {} /\ data["A"] = EmptyDict

\* C16: the derived fields are computed in one pass that comes after the
\* scan of the last file: until mark_duplicates_plot runs no sample holds a
\* derived field; in its loop a sample still to be visited holds none and a
\* visited sample holds all three and is not visited again; when the loop
\* is through every sample holds all three; and from write_csv_file on the
\* scan writes nothing: the samples and their parsed fields are those that
\* were written to the report file.
C16_DerivedOnceAfterScan ==
    /\ pc \notin {"derive", "done"} =>
          \A s \in DOMAIN data : DOMAIN data[s] \cap DerivedFields = {}
    /\ pc = "derive" =>
          \A s \in todo : (err = "none" \/ s # sn) => DOMAIN data[s] \cap DerivedFields = {}
    /\ pc \in {"derive", "done"} =>
          /\ n_docs > 0 /\ s_name = None
          /\ \A s \in DOMAIN data \ todo : DerivedFields \subseteq DOMAIN data[s]
    /\ pc = "done" => todo = {}
    /\ csv.written =>
          /\ ~Scanning
          /\ DOMAIN data = DOMAIN csv.data
          /\ \A s \in DOMAIN data :
                /\ DOMAIN data[s] \ DerivedFields = DOMAIN csv.data[s]
                /\ \A k \in DOMAIN csv.data[s] : data[s][k] = csv.data[s][k]

\* C16 witness: two files were scanned; in the loop of mark_duplicates_plot
\* A has been visited and holds the derived fields, B is still to come and
\* holds none
C16_Witness ==
    /\ pc = "derive" /\ err = "none" /\ n_docs = 2
    /\ DOMAIN data = {"A", "B"} /\ todo = {"B"}
    /\ DerivedFields \subseteq DOMAIN data["A"]
    /\ DOMAIN data["B"] \cap DerivedFields = {}
    /\ data["A"][RPU] = Num(16000)

\* C17 (as claimed): the scan of a file never ends in an error, whatever
\* its lines are: a file that ends right after the metrics line or right
\* after the header row, and a value row shorter than the header row,
\* included.
C17_ScanNeverFails ==
    Scanning => err = "none"

\* C18 (as claimed): when the derivation of a sample has failed with the
\* lookup failure of a missing source field, every other sample whose five
\* source fields are present, and numbers, holds its three derived fields,
\* wherever it comes in the order of the loop.
C18_SkipAndContinue ==
    (pc = "derive" /\ err = "KeyError") =>
        \A s \in DOMAIN data \ {sn} :
            (Missing(data[s]) = {} /\ \A k \in SourceFields : data[s][k].type = "float")
                => DerivedFields \subseteq DOMAIN data[s]

\* C19: up to and including the check of line 37 nothing is written to the
\* report file, the general statistics or the sections, so a run that
\* raises UserWarning leaves the three untouched; past the check the steps
\* come in the order scan, write_csv_file, general statistics, derived
\* fields, chart section: each has happened only if the one before it has.
C19_CheckBeforeWrites ==
    /\ (Scanning \/ pc = "check") =>
          /\ csv = NotWritten
          /\ general_stats = [headers |-> {}, rows |-> EmptyDict]
          /\ sections = <<>>
    /\ err = "UserWarning" => (pc = "check" /\ data = EmptyDict)
    /\ csv.written => (DOMAIN csv.data # {} /\ n_docs > 0)
    /\ general_stats.headers # {} => csv.written
    /\ DOMAIN general_stats.rows # {} => general_stats.headers # {}
    /\ (\E s \in DOMAIN data : DOMAIN data[s] \cap DerivedFields # {}) =>
          DOMAIN general_stats.rows = DOMAIN data
    /\ sections # <<>> =>
          /\ pc = "done" /\ Len(sections) = 1
          /\ sections[1].data = data
          /\ \A s \in DOMAIN data : DerivedFields \subseteq DOMAIN data[s]
    /\ pc = "done" => sections # <<>>

\* C19 witness: two files were scanned, nothing was found, UserWarning is
\* raised and the report file, the general statistics and the sections are
\* as they were before the run
C19_Witness ==
    /\ pc = "check" /\ err = "UserWarning" /\ n_docs = 2
    /\ csv = NotWritten
    /\ general_stats.headers = {} /\ general_stats.rows = EmptyDict
    /\ sections = <<>>
    /\ \E m \in log : m.msg = "Could not find any reports"

====
